---- MODULE Spec2Model ----
(***************************************************************************)
(* Model of the recursive orjson transcoder of eventsourcing-orjson-       *)
(* transcoder (tests/test_orjson_transcoder.py, OrjsonTranscoder_Recursive)*)
(* together with the Transcodings the tests register on it.                *)
(*                                                                         *)
(* A Python value is a pair <<type, payload>> whose first component is the *)
(* name of its exact runtime type, so that equality of two values also     *)
(* compares their types (a tuple is not a list, a MyInt is not an int, as  *)
(* MyInt.__eq__ has it).  A raised exception is the pair                   *)
(* <<"raise", <<class, site>>>>, a byte string the pair <<"bytes", tokens>>.*)
(***************************************************************************)
EXTENDS Integers, Sequences, FiniteSets, TLC

VARIABLES
    types,   \* Transcoder.types : type -> Transcoding
    names,   \* Transcoder.names : name -> Transcoding
    pc,      \* position of the caller: idle, in a call, or after a call
    obj,     \* the argument of the last encode()
    tree,    \* what _encode(obj) returned: the value handed to orjson.dumps
    data,    \* the bytes in hand: returned by encode(), or passed to decode()
    out,     \* what the last call returned or raised
    st,      \* stepwise run: the call stack of _encode / _decode frames
    ret,     \* stepwise run: the value returned by the frame just popped
    calls    \* stepwise run: the arguments Transcoding.decode was called with

vars == <<types, names, pc, obj, tree, data, out, st, ret, calls>>

(***************************************************************************)
(* Bounds of the model.                                                    *)
(***************************************************************************)
MaxDepth == 2    \* nesting depth of the containers in the inputs
MaxLen == 2      \* length of the lists and tuples in the inputs

(***************************************************************************)
(* Python values.                                                          *)
(***************************************************************************)
PStr(s) == <<"str", s>>
PInt(n) == <<"int", n>>
PFloat(n) == <<"float", n>>         \* the float n/10
PBool(b) == <<"bool", b>>
PNone == <<"NoneType", 0>>
PList(s) == <<"list", s>>
PDict(f) == <<"dict", f>>
PTuple(s) == <<"tuple", s>>
MyInt(n) == <<"MyInt", n>>
UUID(n) == <<"UUID", n>>            \* the UUID whose 128-bit integer is n
CustomType1(v) == <<"CustomType1", v>>
CustomType2(v) == <<"CustomType2", v>>
Obj == <<"object", 0>>              \* an instance of a type nobody registers
Raise(cls, site) == <<"raise", <<cls, site>>>>
Bytes(toks) == <<"bytes", toks>>

type(v) == v[1]
IsRaise(v) == v[1] = "raise"
NoValue == <<"unset", 0>>

\* UUID.hex and UUID(hex): the text form of the two identifiers of the model.
HexText == <<"01", "02">>
IsHex(s) == \E n \in DOMAIN HexText : HexText[n] = s
UnHex(s) == CHOOSE n \in DOMAIN HexText : HexText[n] = s

\* The order in which the items of a dict are visited: insertion order, which
\* for the envelope built by _encode is _type_ then _data_.
KeyOrder == <<"_type_", "_data_", "a", "b">>
KeysOf(f) == SelectSeq(KeyOrder, LAMBDA k : k \in DOMAIN f)


(***************************************************************************)
(* The Transcodings.  TupleAsList is defined in test_orjson_transcoder.py, *)
(* MyInt and its Transcoding in test_application.py; UUIDAsHex,            *)
(* CustomType1AsDict and CustomType2AsDict are the library's, registered   *)
(* by _test_performance.  TupleAsSeq and ListAsTuple stand for a second    *)
(* Transcoding of an already registered type, resp. name.                  *)
(***************************************************************************)
Transcodings == {"TupleAsList", "MyIntAsInt", "UUIDAsHex", "CustomType1AsDict",
                 "CustomType2AsDict", "TupleAsSeq", "ListAsTuple"}

TranscodingType(tc) ==
    CASE tc = "TupleAsList" -> "tuple"
      [] tc = "MyIntAsInt" -> "MyInt"
      [] tc = "UUIDAsHex" -> "UUID"
      [] tc = "CustomType1AsDict" -> "CustomType1"
      [] tc = "CustomType2AsDict" -> "CustomType2"
      [] tc = "TupleAsSeq" -> "tuple"
      [] tc = "ListAsTuple" -> "frozenset"

TranscodingName(tc) ==
    CASE tc = "TupleAsList" -> "tuple_as_list"
      [] tc = "MyIntAsInt" -> "myint_as_int"
      [] tc = "UUIDAsHex" -> "uuid_hex"
      [] tc = "CustomType1AsDict" -> "custom_type1_as_dict"
      [] tc = "CustomType2AsDict" -> "custom_type2_as_dict"
      [] tc = "TupleAsSeq" -> "tuple_as_seq"
      [] tc = "ListAsTuple" -> "tuple_as_list"

\* Transcoding.encode(obj), for obj of the Transcoding's type.
TranscodingEncode(tc, o) ==
    CASE tc = "MyIntAsInt" -> PInt(o[2])                 \* int(obj)
      [] tc = "UUIDAsHex" -> PStr(HexText[o[2]])         \* obj.hex
      [] tc = "CustomType1AsDict" -> o[2]                \* obj.value
      [] tc = "CustomType2AsDict" -> o[2]                \* obj.value
      [] OTHER -> PList(o[2])                            \* list(obj)

\* The characters of a text (the other texts of the model have one character),
\* and whether int() accepts a text.
CharsOf(s) ==
    CASE s = "01" -> <<PStr("0"), PStr("1")>>
      [] s = "02" -> <<PStr("0"), PStr("2")>>
      [] OTHER -> <<PStr(s)>>
IsNumeral(s) == IsHex(s)

\* tuple(data)
TupleOf(d) ==
    CASE type(d) \in {"list", "tuple"} -> PTuple(d[2])
      [] type(d) = "str" -> PTuple(CharsOf(d[2]))
      [] type(d) = "dict" -> PTuple([i \in DOMAIN KeysOf(d[2]) |-> PStr(KeysOf(d[2])[i])])
      [] OTHER -> Raise("TypeError", "Transcoding.decode")

\* MyInt(data), that is int.__new__(MyInt, data)
MyIntOf(d) ==
    CASE type(d) \in {"int", "MyInt", "UUID"} -> MyInt(d[2])
      [] type(d) = "bool" -> MyInt(IF d[2] THEN 1 ELSE 0)
      [] type(d) = "float" -> MyInt(d[2] \div 10)
      [] type(d) = "str" -> IF IsNumeral(d[2]) THEN MyInt(UnHex(d[2]))
                            ELSE Raise("ValueError", "Transcoding.decode")
      [] OTHER -> Raise("TypeError", "Transcoding.decode")

\* assert isinstance(data, str); UUID(data)
UUIDOf(d) ==
    IF type(d) # "str" THEN Raise("AssertionError", "Transcoding.decode")
    ELSE IF IsHex(d[2]) THEN UUID(UnHex(d[2]))
    ELSE Raise("ValueError", "Transcoding.decode")

\* Transcoding.decode(data)
TranscodingDecode(tc, d) ==
    CASE tc = "MyIntAsInt" -> MyIntOf(d)
      [] tc = "UUIDAsHex" -> UUIDOf(d)
      [] tc = "CustomType1AsDict" ->
            IF type(d) = "UUID" THEN CustomType1(d)
            ELSE Raise("AssertionError", "Transcoding.decode")
      [] tc = "CustomType2AsDict" ->
            IF type(d) = "CustomType1" THEN CustomType2(d)
            ELSE Raise("AssertionError", "Transcoding.decode")
      [] OTHER -> TupleOf(d)

(***************************************************************************)
(* OrjsonTranscoder_Recursive._encode                                      *)
(***************************************************************************)
\* self._encoders: the types with a native encoder, and the encoder of each.
_encoders ==
    [t \in {"int", "str", "float", "dict", "list"} |->
        IF t = "dict" THEN "_encode_dict" ELSE IF t = "list" THEN "_encode_list"
        ELSE "_encode_pass"]

\* Variant: the lookup falls back on the base class of a subclass of int.
EncoderFor_base(o) ==
    IF type(o) = "MyInt" THEN _encoders["int"]
    ELSE IF type(o) \in DOMAIN _encoders THEN _encoders[type(o)] ELSE "KeyError"

\* self._encoders[type(obj)], or the KeyError of the lookup
EncoderFor(o) == IF type(o) \in DOMAIN _encoders THEN _encoders[type(o)] ELSE "KeyError"

\* Variant: a value of an unregistered type is handed on as it is.
NotSerializable_pass(o) == o

\* raise TypeError("Object of type ... is not serializable ...")
NotSerializable(o) == Raise("TypeError", "_encode")

\* The envelope built for a value of a registered type.
Envelope(name, payload) == PDict(("_type_" :> PStr(name)) @@ ("_data_" :> payload))

RECURSIVE _encode(_, _), _encode_list(_, _, _), _encode_dict(_, _, _, _)

\* [self._encode(v) for v in obj]: s the items still to encode, acc those done.
_encode_list(T, s, acc) ==
    IF s = <<>> THEN PList(acc)
    ELSE LET r == _encode(T, Head(s)) IN
         IF IsRaise(r) THEN r ELSE _encode_list(T, Tail(s), Append(acc, r))

\* {k: self._encode(v) for (k, v) in obj.items()}: ks the keys still to visit.
_encode_dict(T, f, ks, acc) ==
    IF ks = <<>> THEN PDict(acc)
    ELSE LET r == _encode(T, f[Head(ks)]) IN
         IF IsRaise(r) THEN r ELSE _encode_dict(T, f, Tail(ks), acc @@ (Head(ks) :> r))

\* Variant: the envelope is returned without being encoded itself.
EncodeRegistered_flat(T, transcoding, o) ==
    Envelope(TranscodingName(transcoding), TranscodingEncode(transcoding, o))

\* return self._encode({"_type_": transcoding.name,
\*                      "_data_": transcoding.encode(obj)})
EncodeRegistered(T, transcoding, o) ==
    _encode(T, Envelope(TranscodingName(transcoding), TranscodingEncode(transcoding, o)))

_encode(T, o) ==
    LET obj_type == type(o)
        _encoder == EncoderFor(o)
    IN
    IF _encoder # "KeyError"
    THEN CASE _encoder = "_encode_pass" -> o
           [] _encoder = "_encode_dict" -> _encode_dict(T, o[2], KeysOf(o[2]), <<>>)
           [] _encoder = "_encode_list" -> _encode_list(T, o[2], <<>>)
    ELSE IF obj_type \in DOMAIN T
    THEN EncodeRegistered(T, T[obj_type], o)
    ELSE NotSerializable(o)

(***************************************************************************)
(* orjson.dumps and orjson.loads.  Bytes are modelled as the sequence of   *)
(* JSON tokens they hold: <<"s", text>>, <<"n", integer>>, <<"f", float>>, *)
(* true, false, null, the brackets, and <<"k", key>> for a member's key.   *)
(***************************************************************************)
Tok(k) == <<k, 0>>

RECURSIVE dumps(_), DumpItems(_, _), DumpMembers(_, _, _)
DumpItems(s, acc) ==
    IF s = <<>> THEN Bytes(acc \o << Tok("]") >>)
    ELSE LET r == dumps(Head(s)) IN
         IF IsRaise(r) THEN r ELSE DumpItems(Tail(s), acc \o r[2])
DumpMembers(f, ks, acc) ==
    IF ks = <<>> THEN Bytes(acc \o << Tok("}") >>)
    ELSE LET r == dumps(f[Head(ks)]) IN
         IF IsRaise(r) THEN r
         ELSE DumpMembers(f, Tail(ks), acc \o << <<"k", Head(ks)>> >> \o r[2])
dumps(t) ==
    CASE type(t) = "str" -> Bytes(<< <<"s", t[2]>> >>)
      [] type(t) \in {"int", "MyInt"} -> Bytes(<< <<"n", t[2]>> >>)
      [] type(t) = "float" -> Bytes(<< <<"f", t[2]>> >>)
      [] type(t) = "bool" -> Bytes(<< Tok(IF t[2] THEN "true" ELSE "false") >>)
      [] type(t) = "NoneType" -> Bytes(<< Tok("null") >>)
      [] type(t) \in {"list", "tuple"} -> DumpItems(t[2], << Tok("[") >>)
      [] type(t) = "dict" -> DumpMembers(t[2], KeysOf(t[2]), << Tok("{") >>)
      [] OTHER -> Raise("TypeError", "orjson.dumps")

\* The parser: the value that starts at token i of b, and the index after it.
RECURSIVE ParseValue(_, _), ParseItems(_, _, _), ParseMembers(_, _, _)
ParseValue(b, i) ==
    LET k == b[i][1] IN
    CASE k = "s" -> <<PStr(b[i][2]), i + 1>>
      [] k = "n" -> <<PInt(b[i][2]), i + 1>>
      [] k = "f" -> <<PFloat(b[i][2]), i + 1>>
      [] k = "true" -> <<PBool(TRUE), i + 1>>
      [] k = "false" -> <<PBool(FALSE), i + 1>>
      [] k = "null" -> <<PNone, i + 1>>
      [] k = "[" -> ParseItems(b, i + 1, <<>>)
      [] k = "{" -> ParseMembers(b, i + 1, <<>>)
ParseItems(b, i, acc) ==
    IF b[i][1] = "]" THEN <<PList(acc), i + 1>>
    ELSE LET r == ParseValue(b, i) IN ParseItems(b, r[2], Append(acc, r[1]))
ParseMembers(b, i, acc) ==
    IF b[i][1] = "}" THEN <<PDict(acc), i + 1>>
    ELSE LET r == ParseValue(b, i + 1) IN ParseMembers(b, r[2], (b[i][2] :> r[1]) @@ acc)

loads(b) == ParseValue(b[2], 1)[1]

(***************************************************************************)
(* OrjsonTranscoder_Recursive._decode                                      *)
(***************************************************************************)
\* isinstance(value, self.native_types), native_types = (str, int, float):
\* bool and MyInt are subclasses of int.
native_types == {"str", "int", "float"}
Subclasses(t) == IF t = "int" THEN {"int", "bool", "MyInt"} ELSE {t}
isinstance(v, ts) == \E t \in ts : type(v) \in Subclasses(t)

\* Variant: any dict that has both keys counts as an envelope.
IsEnvelope_subset(d) == {"_type_", "_data_"} \subseteq DOMAIN d

\* set(d.keys()) == {"_type_", "_data_"}
IsEnvelope(d) == DOMAIN d = {"_type_", "_data_"}

\* Variant: an envelope of an unknown name is returned as a dict.
NotDeserializable_pass(d) == PDict(d)

\* raise TypeError("Data serialized with name ... is not deserializable ...")
NotDeserializable(d) == Raise("TypeError", "_decode_obj")

\* _decode_obj(d), d a dict whose values are already decoded.
_decode_obj(N, d) ==
    IF IsEnvelope(d)
    THEN LET t == d["_type_"] IN
         IF type(t) = "str" /\ t[2] \in DOMAIN N
         THEN TranscodingDecode(N[t[2]], d["_data_"])
         ELSE NotDeserializable(d)
    ELSE PDict(d)

RECURSIVE _decode(_, _), _decode_list(_, _, _), _decode_dict(_, _, _, _)

\* for i, value in enumerate(obj): obj[i] = self._decode(value)
_decode_list(N, s, acc) ==
    IF s = <<>> THEN PList(acc)
    ELSE LET r == IF isinstance(Head(s), native_types) THEN Head(s) ELSE _decode(N, Head(s)) IN
         IF IsRaise(r) THEN r ELSE _decode_list(N, Tail(s), Append(acc, r))

\* for key, value in obj.items(): obj[key] = self._decode(value);
\* return self._decode_obj(obj)
_decode_dict(N, f, ks, acc) ==
    IF ks = <<>> THEN _decode_obj(N, acc)
    ELSE LET v == f[Head(ks)]
             r == IF isinstance(v, native_types) THEN v ELSE _decode(N, v) IN
         IF IsRaise(r) THEN r ELSE _decode_dict(N, f, Tail(ks), acc @@ (Head(ks) :> r))

_decode(N, o) ==
    IF type(o) = "dict" THEN _decode_dict(N, o[2], KeysOf(o[2]), <<>>)
    ELSE IF type(o) = "list" THEN _decode_list(N, o[2], <<>>)
    ELSE o

\* OrjsonTranscoder_Recursive.decode
decode(N, b) == _decode(N, loads(b))

(***************************************************************************)
(* The inputs: values to encode and value-trees whose bytes are decoded.   *)
(***************************************************************************)
Atoms == {PStr("a"), PInt(1), PFloat(15), PBool(TRUE), PNone, MyInt(2), UUID(1), Obj,
          CustomType2(CustomType1(UUID(2)))}
Empties == {PList(<<>>), PTuple(<<>>), PDict(<<>>)}
Sibling == PInt(2)

\* The sequences of length at most MaxLen that start with x.
RECURSIVE Pad(_, _)
Pad(s, n) == IF n = 0 THEN {} ELSE {s} \cup Pad(Append(s, Sibling), n - 1)
SeqsFrom(x) == Pad(<<x>>, MaxLen)

\* An application mapping that happens to have the two keys of an envelope.
EnvelopeShaped(t, x) == PDict(("_type_" :> t) @@ ("_data_" :> x))

Wrap(x) ==
    {PTuple(s) : s \in SeqsFrom(x)}
    \cup {PList(<<x>>), PDict("a" :> x), EnvelopeShaped(PStr("tuple_as_list"), x)}

RECURSIVE ValuesOfDepth(_)
ValuesOfDepth(d) ==
    IF d = 0 THEN Atoms
    ELSE LET S == ValuesOfDepth(d - 1) IN S \cup UNION {Wrap(x) : x \in S}
Values == ValuesOfDepth(MaxDepth) \cup Empties

WireAtoms == {PStr("a"), PStr("01"), PInt(1), PBool(TRUE), PNone}
WireNames == {"tuple_as_list", "myint_as_int", "uuid_hex", "nope"}
WireSibling == EnvelopeShaped(PStr("nope"), PInt(1))

WireWrap(x) ==
    {EnvelopeShaped(PStr(n), x) : n \in WireNames}
    \cup {PDict("_data_" :> x),
          PDict(("_type_" :> PStr("tuple_as_list")) @@ ("_data_" :> x) @@ ("a" :> PInt(1))),
          PList(<<x>>), PList(<<x, WireSibling>>)}

RECURSIVE WireOfDepth(_)
WireOfDepth(d) ==
    IF d = 0 THEN WireAtoms
    ELSE LET S == WireOfDepth(d - 1) IN S \cup UNION {WireWrap(x) : x \in S}
WireTrees == WireOfDepth(MaxDepth)
WireBytes == {dumps(w) : w \in WireTrees}

(***************************************************************************)
(* The transcoder as a state machine: every action is one call.            *)
(***************************************************************************)

\* OrjsonTranscoder_Recursive.__init__: register(TupleAsList()).
Init ==
    /\ types = ("tuple" :> "TupleAsList")
    /\ names = ("tuple_as_list" :> "TupleAsList")
    /\ pc = "idle"
    /\ obj = NoValue /\ tree = NoValue /\ data = NoValue /\ out = NoValue
    /\ st = <<>> /\ ret = NoValue /\ calls = <<>>

\* Variant: register never refuses.
RegisterError_none(T, N, tc) == PNone

\* Transcoder.register(transcoding): the error it raises, or None
RegisterError(T, N, tc) ==
    IF TranscodingType(tc) \in DOMAIN T THEN Raise("DuplicateType", "register")
    ELSE IF TranscodingName(tc) \in DOMAIN N THEN Raise("DuplicateName", "register")
    ELSE PNone

\* The Transcodings a caller registers, one after the other; a Transcoding of
\* a type or name already taken may be tried at any time.
RegistrationOrder == <<"MyIntAsInt", "UUIDAsHex", "CustomType1AsDict", "CustomType2AsDict">>
Duplicates == {"TupleAsList", "TupleAsSeq", "ListAsTuple"}
NextToRegister(T) ==
    {RegistrationOrder[i] : i \in {j \in DOMAIN RegistrationOrder :
        /\ TranscodingType(RegistrationOrder[j]) \notin DOMAIN T
        /\ \A k \in 1..(j-1) : TranscodingType(RegistrationOrder[k]) \in DOMAIN T}}

Register(tc) ==
    /\ pc = "idle"
    /\ LET e == RegisterError(types, names, tc) IN
        /\ out' = e
        /\ IF IsRaise(e) THEN UNCHANGED <<types, names>>
           ELSE /\ types' = (TranscodingType(tc) :> tc) @@ types
                /\ names' = (TranscodingName(tc) :> tc) @@ names
    /\ pc' = "registered"
    /\ UNCHANGED <<obj, tree, data, st, ret, calls>>

\* OrjsonTranscoder_Recursive.encode(obj)
Encode(v) ==
    /\ pc = "idle"
    /\ LET t == _encode(types, v)
           b == IF IsRaise(t) THEN t ELSE dumps(t)
       IN /\ obj' = v
          /\ tree' = t
          /\ data' = IF IsRaise(b) THEN NoValue ELSE b
          /\ out' = b
    /\ pc' = "encoded"
    /\ UNCHANGED <<types, names, st, ret, calls>>

\* OrjsonTranscoder_Recursive.decode(data), of the bytes encode just returned.
Decode ==
    /\ pc = "encoded"
    /\ ~IsRaise(out)
    /\ out' = decode(names, data)
    /\ pc' = "decoded"
    /\ UNCHANGED <<types, names, obj, tree, data, st, ret, calls>>

\* OrjsonTranscoder_Recursive.decode(b), of bytes from elsewhere.
DecodeBytes(b) ==
    /\ pc = "idle"
    /\ data' = b
    /\ out' = decode(names, b)
    /\ pc' = "received"
    /\ UNCHANGED <<types, names, obj, tree, st, ret, calls>>

\* The call has returned or raised; the caller goes on.
Return ==
    /\ pc \in {"registered", "encoded", "decoded", "received"}
    /\ pc' = "idle"
    /\ obj' = NoValue /\ tree' = NoValue /\ data' = NoValue /\ out' = NoValue
    /\ UNCHANGED <<types, names, st, ret, calls>>

Next ==
    \/ \E tc \in NextToRegister(types) \cup Duplicates : Register(tc)
    \/ \E v \in Values : Encode(v)
    \/ Decode
    \/ \E b \in WireBytes : DecodeBytes(b)
    \/ Return

Spec == Init /\ [][Next]_vars

(***************************************************************************)
(* The same calls, run one Python call or loop iteration at a time.  st is *)
(* the stack of the frames of _encode and _decode that are open, the       *)
(* innermost last; ret is the value the frame that just returned handed    *)
(* to its caller; calls lists, in order, the calls of Transcoding.decode   *)
(* made by the running decode: the Transcoding, the payload as parsed      *)
(* from the bytes, and the payload it was given.                           *)
(***************************************************************************)
Top == st[Len(st)]
Pop == SubSeq(st, 1, Len(st) - 1)

\* self._encode(obj), about to run
CallEncode(o) == <<"_encode", o>>
\* [self._encode(v) for v in obj]: the items left (the first is being
\* encoded once its call is open) and the items encoded
InEncodeList(rest, acc) == <<"_encode_list", rest, acc>>
\* {k: self._encode(v) for (k, v) in obj.items()}
InEncodeDict(f, ks, acc) == <<"_encode_dict", f, ks, acc>>
\* self._decode(value), about to run
CallDecode(o) == <<"_decode", o>>
\* for i in range(len(value)): value[i] = self._decode(value[i])
InDecodeList(rest, acc) == <<"_decode_list", rest, acc>>
\* for key in value: value[key] = self._decode(value[key])
InDecodeDict(f, ks, acc) == <<"_decode_dict", f, ks, acc>>

\* Variant: the value itself, not its envelope, is encoded again.
ReEncode_same(transcoding, o) == CallEncode(o)

\* return self._encode({"_type_": ..., "_data_": transcoding.encode(obj)})
ReEncode(transcoding, o) ==
    CallEncode(Envelope(TranscodingName(transcoding), TranscodingEncode(transcoding, o)))

\* Variant: _decode_obj sees the dict before its values are decoded.
EnterDecodeDict_shallow(f) == InDecodeDict(f, <<>>, f)

\* _decode of a dict: every value is decoded before _decode_obj sees the dict
EnterDecodeDict(f) == InDecodeDict(f, KeysOf(f), <<>>)

\* An exception leaves every open frame.
Unwind(e) == st' = <<>> /\ ret' = e

\* The values to encode and the trees to decode, one level shallower than
\* those of the whole calls, and a tuple that holds a tuple.
StepSamples == {PTuple(<<PTuple(<<PInt(1)>>), Sibling>>)}
StepValues == ValuesOfDepth(MaxDepth - 1) \cup StepSamples
StepBytes == {dumps(w) : w \in WireOfDepth(MaxDepth - 1)}

\* encode(obj): return dumps(self._encode(obj)); _encode is entered
StartEncode(v) ==
    /\ pc = "idle"
    /\ obj' = v
    /\ st' = <<CallEncode(v)>>
    /\ pc' = "encoding"
    /\ UNCHANGED <<types, names, tree, data, out, ret, calls>>

\* _encode(obj): one run of the method's body
Step_encode ==
    /\ pc = "encoding" /\ st # <<>> /\ Top[1] = "_encode"
    /\ LET o == Top[2]
           _encoder == EncoderFor(o)
       IN IF _encoder = "_encode_pass" THEN st' = Pop /\ ret' = o
          ELSE IF _encoder = "_encode_dict"
          THEN st' = Append(Pop, InEncodeDict(o[2], KeysOf(o[2]), <<>>)) /\ ret' = NoValue
          ELSE IF _encoder = "_encode_list"
          THEN st' = Append(Pop, InEncodeList(o[2], <<>>)) /\ ret' = NoValue
          ELSE IF type(o) \in DOMAIN types
          THEN st' = Append(Pop, ReEncode(types[type(o)], o)) /\ ret' = NoValue
          ELSE Unwind(NotSerializable(o))
    /\ UNCHANGED <<types, names, pc, obj, tree, data, out, calls>>

\* _encode_list: take the encoded item, open the call for the next, or return
Step_encode_list ==
    /\ pc = "encoding" /\ st # <<>> /\ Top[1] = "_encode_list"
    /\ LET rest == Top[2]
           acc == Top[3]
       IN IF ret # NoValue
          THEN st' = Append(Pop, InEncodeList(Tail(rest), Append(acc, ret))) /\ ret' = NoValue
          ELSE IF rest = <<>> THEN st' = Pop /\ ret' = PList(acc)
          ELSE st' = Append(st, CallEncode(Head(rest))) /\ ret' = NoValue
    /\ UNCHANGED <<types, names, pc, obj, tree, data, out, calls>>

\* _encode_dict: likewise, over the items of the dict
Step_encode_dict ==
    /\ pc = "encoding" /\ st # <<>> /\ Top[1] = "_encode_dict"
    /\ LET f == Top[2]
           ks == Top[3]
           acc == Top[4]
       IN IF ret # NoValue
          THEN /\ st' = Append(Pop, InEncodeDict(f, Tail(ks), (Head(ks) :> ret) @@ acc))
               /\ ret' = NoValue
          ELSE IF ks = <<>> THEN st' = Pop /\ ret' = PDict(acc)
          ELSE st' = Append(st, CallEncode(f[Head(ks)])) /\ ret' = NoValue
    /\ UNCHANGED <<types, names, pc, obj, tree, data, out, calls>>

\* encode: _encode has returned or raised; dumps makes the bytes
FinishEncode ==
    /\ pc = "encoding" /\ st = <<>>
    /\ LET b == IF IsRaise(ret) THEN ret ELSE dumps(ret)
       IN /\ tree' = ret
          /\ data' = IF IsRaise(b) THEN NoValue ELSE b
          /\ out' = b
    /\ ret' = NoValue
    /\ pc' = "encoded"
    /\ UNCHANGED <<types, names, obj, st, calls>>

\* decode(data), of the bytes encode just returned: loads, _decode is entered
StartDecode ==
    /\ pc = "encoded" /\ ~IsRaise(out)
    /\ st' = <<CallDecode(loads(data))>>
    /\ pc' = "decoding"
    /\ UNCHANGED <<types, names, obj, tree, data, out, ret, calls>>

\* decode(b), of bytes from elsewhere
StartDecodeBytes(b) ==
    /\ pc = "idle"
    /\ data' = b
    /\ st' = <<CallDecode(loads(b))>>
    /\ pc' = "receiving"
    /\ UNCHANGED <<types, names, obj, tree, out, ret, calls>>

\* _decode(obj): one run of the method's body up to its loop
Step_decode ==
    /\ pc \in {"decoding", "receiving"} /\ st # <<>> /\ Top[1] = "_decode"
    /\ LET o == Top[2]
       IN IF type(o) = "dict"
          THEN st' = Append(Pop, EnterDecodeDict(o[2])) /\ ret' = NoValue
          ELSE IF type(o) = "list"
          THEN st' = Append(Pop, InDecodeList(o[2], <<>>)) /\ ret' = NoValue
          ELSE st' = Pop /\ ret' = o
    /\ UNCHANGED <<types, names, pc, obj, tree, data, out, calls>>

\* _decode, the loop over a list
Step_decode_list ==
    /\ pc \in {"decoding", "receiving"} /\ st # <<>> /\ Top[1] = "_decode_list"
    /\ LET rest == Top[2]
           acc == Top[3]
       IN IF ret # NoValue
          THEN st' = Append(Pop, InDecodeList(Tail(rest), Append(acc, ret))) /\ ret' = NoValue
          ELSE IF rest = <<>> THEN st' = Pop /\ ret' = PList(acc)
          ELSE IF isinstance(Head(rest), native_types)
          THEN st' = Append(Pop, InDecodeList(Tail(rest), Append(acc, Head(rest)))) /\ ret' = NoValue
          ELSE st' = Append(st, CallDecode(Head(rest))) /\ ret' = NoValue
    /\ UNCHANGED <<types, names, pc, obj, tree, data, out, calls>>

\* _decode, the loop over a dict, and then return self._decode_obj(value)
Step_decode_dict ==
    /\ pc \in {"decoding", "receiving"} /\ st # <<>> /\ Top[1] = "_decode_dict"
    /\ LET f == Top[2]
           ks == Top[3]
           acc == Top[4]
           r == _decode_obj(names, acc)
           t == acc["_type_"]
       IN IF ret # NoValue
          THEN /\ st' = Append(Pop, InDecodeDict(f, Tail(ks), (Head(ks) :> ret) @@ acc))
               /\ ret' = NoValue
               /\ UNCHANGED calls
          ELSE IF ks = <<>>
          THEN /\ IF IsRaise(r) THEN Unwind(r) ELSE st' = Pop /\ ret' = r
               /\ calls' = IF IsEnvelope(acc) /\ type(t) = "str" /\ t[2] \in DOMAIN names
                           THEN Append(calls, <<names[t[2]], f["_data_"], acc["_data_"]>>)
                           ELSE calls
          ELSE /\ IF isinstance(f[Head(ks)], native_types)
                  THEN st' = Append(Pop, InDecodeDict(f, Tail(ks), (Head(ks) :> f[Head(ks)]) @@ acc))
                  ELSE st' = Append(st, CallDecode(f[Head(ks)]))
               /\ ret' = NoValue
               /\ UNCHANGED calls
    /\ UNCHANGED <<types, names, pc, obj, tree, data, out>>

\* decode: _decode has returned or raised
FinishDecode ==
    /\ pc \in {"decoding", "receiving"} /\ st = <<>>
    /\ out' = ret
    /\ ret' = NoValue
    /\ pc' = IF pc = "decoding" THEN "decoded" ELSE "received"
    /\ UNCHANGED <<types, names, obj, tree, data, st, calls>>

\* The call has returned or raised; the caller goes on.
StepReturn ==
    /\ pc \in {"registered", "encoded", "decoded", "received"}
    /\ pc' = "idle"
    /\ obj' = NoValue /\ tree' = NoValue /\ data' = NoValue /\ out' = NoValue
    /\ calls' = <<>>
    /\ UNCHANGED <<types, names, st, ret>>

\* What the interpreter does while a call is running.
Run ==
    \/ Step_encode
    \/ Step_encode_list
    \/ Step_encode_dict
    \/ FinishEncode
    \/ Step_decode
    \/ Step_decode_list
    \/ Step_decode_dict
    \/ FinishDecode

StepNext ==
    \/ \E tc \in NextToRegister(types) \cup Duplicates : Register(tc)
    \/ \E v \in StepValues : StartEncode(v)
    \/ StartDecode
    \/ \E b \in StepBytes : StartDecodeBytes(b)
    \/ Run
    \/ StepReturn

\* A call that is running keeps running: the interpreter does not stop
\* inside encode or decode.
StepSpec == Init /\ [][StepNext]_vars /\ WF_vars(Run)

(***************************************************************************)
(* Vocabulary of the claims.                                               *)
(***************************************************************************)
\* The native types of the value-tree: text, integer, floating-point,
\* boolean, null, lists and mappings.
NativeTypes == {"str", "int", "float", "bool", "NoneType", "list", "dict"}

\* The values directly inside v.
Children(v) ==
    CASE type(v) \in {"list", "tuple"} -> {v[2][i] : i \in DOMAIN v[2]}
      [] type(v) = "dict" -> {v[2][k] : k \in DOMAIN v[2]}
      [] type(v) \in {"CustomType1", "CustomType2"} -> {v[2]}
      [] OTHER -> {}

\* The runtime types of v and of every value inside it.
RECURSIVE TypesIn(_)
TypesIn(v) == {type(v)} \cup UNION {TypesIn(c) : c \in Children(v)}

\* v is, or holds at some depth, a mapping whose key set is {_type_, _data_}.
RECURSIVE HasEnvelopeShaped(_)
HasEnvelopeShaped(v) ==
    \/ type(v) = "dict" /\ DOMAIN v[2] = {"_type_", "_data_"}
    \/ \E c \in Children(v) : HasEnvelopeShaped(c)

\* v is, or holds at some depth, an envelope whose _type_ is no registered name.
RECURSIVE HasUnknownEnvelope(_, _)
HasUnknownEnvelope(N, v) ==
    \/ /\ type(v) = "dict" /\ DOMAIN v[2] = {"_type_", "_data_"}
       /\ ~(type(v[2]["_type_"]) = "str" /\ v[2]["_type_"][2] \in DOMAIN N)
    \/ \E c \in Children(v) : HasUnknownEnvelope(N, c)

\* v is, or holds at some depth, an envelope whose _type_ is a registered name.
RECURSIVE HasKnownEnvelope(_, _)
HasKnownEnvelope(N, v) ==
    \/ /\ type(v) = "dict" /\ DOMAIN v[2] = {"_type_", "_data_"}
       /\ type(v[2]["_type_"]) = "str" /\ v[2]["_type_"][2] \in DOMAIN N
    \/ \E c \in Children(v) : HasKnownEnvelope(N, c)

Called == pc \in {"encoded", "decoded"}

(***************************************************************************)
(* C1.  Round trip of registered types: for every registered Transcoding   *)
(* and every value of its type, at top level or nested in lists and        *)
(* mapping values, encode succeeds and decode(encode(v)) is v, with v's    *)
(* type.  Stated for the values whose parts are all native or registered   *)
(* and that hold no mapping shaped like an envelope.                       *)
(***************************************************************************)
C1_InScope ==
    /\ TypesIn(obj) \cap DOMAIN types # {}
    /\ TypesIn(obj) \subseteq NativeTypes \cup DOMAIN types
    /\ ~HasEnvelopeShaped(obj)

C1_RoundTripRegistered ==
    (Called /\ C1_InScope) =>
        /\ ~IsRaise(out)
        /\ pc = "decoded" => out = obj

(***************************************************************************)
(* C2.  Native pass-through: for a value built only from native scalars,   *)
(* lists and text-keyed mappings, encode succeeds, the value handed to the *)
(* codec backend is the value itself, and decode(encode(v)) is v.  Stated  *)
(* for the values that hold no mapping shaped like an envelope.            *)
(***************************************************************************)
C2_InScope ==
    /\ TypesIn(obj) \subseteq NativeTypes
    /\ ~HasEnvelopeShaped(obj)

C2_NativePassThrough ==
    (Called /\ C2_InScope) =>
        /\ ~IsRaise(out)
        /\ tree = obj
        /\ pc = "decoded" => out = obj

(***************************************************************************)
(* C4.  Unregistered type: when the value to encode is, or holds at any    *)
(* depth (in a list, a mapping value, or the payload of a registered       *)
(* Transcoding), a value whose type is neither native nor registered,      *)
(* _encode raises TypeError, the codec backend is never reached and no     *)
(* bytes are returned.                                                     *)
(***************************************************************************)
C4_UnregisteredTypeFails ==
    (Called /\ ~(TypesIn(obj) \subseteq NativeTypes \cup DOMAIN types)) =>
        /\ pc = "encoded"
        /\ tree = Raise("TypeError", "_encode")
        /\ out = tree
        /\ data = NoValue

C4_Witness ==
    /\ pc = "encoded"
    /\ obj = PDict("a" :> PTuple(<<Obj, PInt(2)>>))
    /\ out = Raise("TypeError", "_encode")

(***************************************************************************)
(* C5.  Unknown discriminator, as stated: decode of bytes that hold, at    *)
(* any depth, an envelope whose _type_ is no registered name raises        *)
(* TypeError.                                                              *)
(***************************************************************************)
C5_Case == pc = "received" /\ HasUnknownEnvelope(names, loads(data))

C5_UnknownNameRaisesTypeError ==
    C5_Case => (IsRaise(out) /\ out[2][1] = "TypeError")

(***************************************************************************)
(* C5, amended: such a decode always raises and returns no value; what it  *)
(* raises is the TypeError of _decode_obj, unless the decode of a          *)
(* registered Transcoding, applied earlier in the walk to a payload it     *)
(* does not accept, raised first; with no envelope of a registered name in *)
(* the bytes it is always the TypeError of _decode_obj.                    *)
(***************************************************************************)
C5_UnknownNameRaises ==
    C5_Case =>
        /\ IsRaise(out)
        /\ out = Raise("TypeError", "_decode_obj") \/ out[2][2] = "Transcoding.decode"
        /\ ~HasKnownEnvelope(names, loads(data)) => out = Raise("TypeError", "_decode_obj")

C5_Witness ==
    /\ pc = "received"
    /\ loads(data) = EnvelopeShaped(PStr("tuple_as_list"), EnvelopeShaped(PStr("nope"), PInt(1)))
    /\ out = Raise("TypeError", "_decode_obj")

(***************************************************************************)
(* C6.  Duplicate registration: the registered Transcodings never share a  *)
(* type or a name and the two mappings index the same Transcodings; a      *)
(* register call whose type or name is taken raises and leaves both        *)
(* mappings as they were.                                                  *)
(***************************************************************************)
Registered(T, N) == {T[t] : t \in DOMAIN T} \cup {N[n] : n \in DOMAIN N}

RegistryUnique(T, N) ==
    /\ \A t \in DOMAIN T : TranscodingType(T[t]) = t
    /\ \A n \in DOMAIN N : TranscodingName(N[n]) = n
    /\ \A a, b \in Registered(T, N) :
          a # b => /\ TranscodingType(a) # TranscodingType(b)
                   /\ TranscodingName(a) # TranscodingName(b)
    /\ {T[t] : t \in DOMAIN T} = {N[n] : n \in DOMAIN N}

C6_DuplicateRegistration ==
    /\ RegistryUnique(types, names)
    /\ [][/\ RegistryUnique(types', names')
          /\ (pc' = "registered" /\ IsRaise(out')) =>
                (types' = types /\ names' = names /\ types'["tuple"] = "TupleAsList")
          /\ \A tc \in Transcodings :
                (pc = "idle" /\ pc' = "registered" /\ ~IsRaise(out')
                 /\ tc \in Registered(types', names') /\ tc \notin Registered(types, names)) =>
                    /\ TranscodingType(tc) \notin DOMAIN types
                    /\ TranscodingName(tc) \notin DOMAIN names]_vars

C6_Witness ==
    /\ pc = "registered"
    /\ out = Raise("DuplicateName", "register")
    /\ names["tuple_as_list"] = "TupleAsList"
    /\ "MyInt" \in DOMAIN types

(***************************************************************************)
(* C7.  Envelope shape: where the value holds a value of a registered      *)
(* type, the tree handed to the codec backend (and parsed back from the    *)
(* bytes) holds a mapping with exactly the keys _type_ and _data_, _type_  *)
(* the Transcoding's name and _data_ the encoded form of what the          *)
(* Transcoding's encode returned; lists and mappings keep their shape and  *)
(* native scalars are unchanged.                                           *)
(***************************************************************************)
RECURSIVE EncodedAs(_, _, _)
EncodedAs(T, v, t) ==
    IF type(v) \in DOMAIN T
    THEN /\ type(t) = "dict"
         /\ DOMAIN t[2] = {"_type_", "_data_"}
         /\ t[2]["_type_"] = PStr(TranscodingName(T[type(v)]))
         /\ EncodedAs(T, TranscodingEncode(T[type(v)], v), t[2]["_data_"])
    ELSE IF type(v) = "list"
    THEN /\ type(t) = "list"
         /\ Len(t[2]) = Len(v[2])
         /\ \A i \in DOMAIN v[2] : EncodedAs(T, v[2][i], t[2][i])
    ELSE IF type(v) = "dict"
    THEN /\ type(t) = "dict"
         /\ DOMAIN t[2] = DOMAIN v[2]
         /\ \A k \in DOMAIN v[2] : EncodedAs(T, v[2][k], t[2][k])
    ELSE t = v

C7_EnvelopeShape ==
    (Called /\ ~IsRaise(tree)) =>
        /\ EncodedAs(types, obj, tree)
        /\ TypesIn(tree) \cap DOMAIN types = {}
        /\ data # NoValue /\ loads(data) = tree

C7_Witness ==
    /\ pc = "encoded"
    /\ obj = PTuple(<<PTuple(<<PInt(1)>>), PInt(2)>>)
    /\ tree = Envelope("tuple_as_list",
                  PList(<<Envelope("tuple_as_list", PList(<<PInt(1)>>)), PInt(2)>>))
    /\ loads(data) = tree

(***************************************************************************)
(* C8.  Exact-type dispatch: a MyInt (a subclass of int) is never passed   *)
(* through as a native scalar.  With its Transcoding registered it is      *)
(* encoded as an envelope and decode(encode(v)) gives back the MyInt, at   *)
(* top level and inside containers; without it encode raises TypeError.    *)
(***************************************************************************)
C8_InScope ==
    /\ "MyInt" \in TypesIn(obj)
    /\ TypesIn(obj) \subseteq {"MyInt", "int", "str", "list", "dict", "tuple"}
    /\ ~HasEnvelopeShaped(obj)

C8_ExactTypeDispatch ==
    (Called /\ C8_InScope) =>
        IF "MyInt" \in DOMAIN types
        THEN /\ ~IsRaise(out)
             /\ "MyInt" \notin TypesIn(tree)
             /\ pc = "decoded" => out = obj
        ELSE tree = Raise("TypeError", "_encode")

C8_Witness ==
    /\ pc = "decoded"
    /\ obj = PDict("a" :> MyInt(2))
    /\ tree = PDict("a" :> Envelope("myint_as_int", PInt(2)))
    /\ out = PDict("a" :> MyInt(2))

(***************************************************************************)
(* C9.  Structural envelope recognition: a mapping of the parsed tree      *)
(* whose values decode is replaced by its Transcoding's decode of the      *)
(* decoded payload (or the lookup of its name fails) exactly when its key  *)
(* set is {_type_, _data_}; with any other key set it comes back as a      *)
(* mapping of its decoded values.  So an application mapping with exactly  *)
(* these two keys does not come back from decode(encode(v)).               *)
(***************************************************************************)
C9_Decoded(f) == [k \in DOMAIN f |-> _decode(names, f[k])]

C9_StructuralRecognition ==
    /\ (pc = "received" /\ type(loads(data)) = "dict") =>
          LET f == loads(data)[2]
              dv == C9_Decoded(f)
          IN  (\A k \in DOMAIN f : ~IsRaise(dv[k])) =>
                IF DOMAIN f = {"_type_", "_data_"}
                THEN /\ out # PDict(dv)
                     /\ out = IF type(dv["_type_"]) = "str" /\ dv["_type_"][2] \in DOMAIN names
                              THEN TranscodingDecode(names[dv["_type_"][2]], dv["_data_"])
                              ELSE Raise("TypeError", "_decode_obj")
                ELSE out = PDict(dv)
    /\ (pc = "decoded" /\ HasEnvelopeShaped(obj)) => out # obj

C9_Witness ==
    /\ pc = "received"
    /\ loads(data) = PDict(("_type_" :> PStr("tuple_as_list")) @@ ("_data_" :> PList(<<PInt(1)>>))
                            @@ ("a" :> PInt(1)))
    /\ out = loads(data)

(***************************************************************************)
(* C3.  Bottom-up decode order: every call of a Transcoding's decode made  *)
(* by decode comes after the calls for all the envelopes inside its        *)
(* payload, and the payload it is given is the decoded payload, holding no *)
(* mapping shaped like an envelope; a CustomType2 holding a CustomType1    *)
(* holding a UUID, at top level or in a container, comes back equal.       *)
(***************************************************************************)
RECURSIVE KnownEnvelopesIn(_, _)
KnownEnvelopesIn(N, v) ==
    (IF /\ type(v) = "dict" /\ DOMAIN v[2] = {"_type_", "_data_"}
        /\ type(v[2]["_type_"]) = "str" /\ v[2]["_type_"][2] \in DOMAIN N
     THEN {<<N[v[2]["_type_"][2]], v[2]["_data_"]>>} ELSE {})
    \cup UNION {KnownEnvelopesIn(N, c) : c \in Children(v)}

C3_BottomUpDecode ==
    /\ \A j \in DOMAIN calls :
          /\ ~HasEnvelopeShaped(calls[j][3])
          /\ calls[j][3] = _decode(names, calls[j][2])
          /\ \A e \in KnownEnvelopesIn(names, calls[j][2]) :
                \E i \in 1..(j - 1) : calls[i][1] = e[1] /\ calls[i][2] = e[2]
    /\ (pc = "decoded" /\ "CustomType2" \in TypesIn(obj) /\ ~HasEnvelopeShaped(obj)) =>
          /\ out = obj
          /\ \E i, j, k \in DOMAIN calls :
                /\ i < j /\ j < k
                /\ calls[i][1] = "UUIDAsHex"
                /\ calls[j][1] = "CustomType1AsDict" /\ type(calls[j][3]) = "UUID"
                /\ calls[k][1] = "CustomType2AsDict" /\ type(calls[k][3]) = "CustomType1"

C3_Witness ==
    /\ pc = "decoded"
    /\ obj = PDict("a" :> CustomType2(CustomType1(UUID(2))))
    /\ out = obj
    /\ Len(calls) = 3
    /\ calls[3] = <<"CustomType2AsDict",
                    Envelope("custom_type1_as_dict", Envelope("uuid_hex", PStr("02"))),
                    CustomType1(UUID(2))>>

(***************************************************************************)
(* C10.  Termination: a call of encode or decode that has started always   *)
(* finishes, with a result or with an error, also when the payload a       *)
(* Transcoding's encode returned holds values of the type just encoded.    *)
(***************************************************************************)
C10_Termination ==
    (pc \in {"encoding", "decoding", "receiving"}) ~> (pc \in {"encoded", "decoded", "received"})

C10_Witness ==
    /\ pc = "encoded"
    /\ obj = PTuple(<<PTuple(<<PInt(1)>>), Sibling>>)
    /\ tree = Envelope("tuple_as_list",
                 PList(<<Envelope("tuple_as_list", PList(<<PInt(1)>>)), Sibling>>))
    /\ ~IsRaise(out)
====
